---- MODULE Spec2Model ----
(***************************************************************************)
(* Model of app.py, the Olist e-commerce dashboard script.                 *)
(*                                                                         *)
(* One run of the script is: load_data (cached), date coercion, derivation *)
(* of delivery_time_days, the validity filter, the period columns, the     *)
(* year selector and filter, and the six aggregation views.  A change of   *)
(* the year selector re-runs the whole script from the top.                *)
(*                                                                         *)
(* A table is [columns, datetime, rows]: the column names, the columns     *)
(* whose dtype is datetime64, and the rows in order.  A row maps "index"   *)
(* and every column name to a cell.  A cell is a tuple: <<>> is a missing  *)
(* value (NaN / NaT), <<v>> a number, a parsed timestamp (hours since      *)
(* 1970-01-01 00:00) or a category name, <<y, m, d, h>> the text of a date *)
(* as read from the file, <<y, m, d, h, off>> such a text with a UTC offset *)
(* in hours, <<y, m>> a monthly period.  Prices, delivery days and review  *)
(* scores are integers.                                                    *)
(***************************************************************************)
EXTENDS Integers, Sequences, FiniteSets, TLC

VARIABLES
    csv,                \* the file olist_cleaned_dataset.csv: NoFile or a table
    cache,              \* st.cache_data's entry for load_data(): <<>> or <<table>>
    pc,                 \* the statement the run is about to execute
    df,                 \* the script's df
    tahun_opsi,         \* options of the year selector
    tahun_terpilih,     \* the selector's value (widget state, kept across runs)
    filtered_df,
    orders_per_month,
    revenue_per_month,
    top10_products,
    delivery_hist,      \* the bin counts sns.histplot draws
    delivery_vs_review,
    avg_delivery,
    messages,           \* st.error messages shown in this run
    exception,          \* the uncaught exception that ended the run, or "none"
    bound               \* the names of the script this run has assigned

vars == <<csv, cache, pc, df, tahun_opsi, tahun_terpilih, filtered_df,
          orders_per_month, revenue_per_month, top10_products, delivery_hist,
          delivery_vs_review, avg_delivery, messages, exception, bound>>

views == <<orders_per_month, revenue_per_month, top10_products, delivery_hist,
           delivery_vs_review, avg_delivery>>

-----------------------------------------------------------------------------
(* Bounds of the model.                                                    *)

MaxRows == 3            \* rows of a narrow input file
MaxWide == 12           \* rows of a wide input file (more than ten categories)

-----------------------------------------------------------------------------
(* Cells.                                                                  *)

NA == <<>>
IsNA(c) == c = NA
NotNA(c) == c # NA
Val(c) == c[1]
Cell(v) == <<v>>

NoFile == [columns |-> {}, datetime |-> {}, rows |-> <<>>, found |-> FALSE]
NoTable == [columns |-> {}, datetime |-> {}, rows |-> <<>>]
\* 'Semua', the selector's str option; the other options are year cells
Semua == <<"Semua", "str">>

Range(s) == {s[i] : i \in DOMAIN s}

RECURSIVE SumSeq(_)
\* sum of a sequence of integers
SumSeq(s) == IF s = <<>> THEN 0 ELSE s[1] + SumSeq(Tail(s))

RECURSIVE SortInts(_)
\* a finite set of integers as an ascending sequence
SortInts(S) ==
    IF S = {} THEN <<>>
    ELSE LET x == CHOOSE y \in S : \A z \in S : y <= z
         IN <<x>> \o SortInts(S \ {x})

-----------------------------------------------------------------------------
(* Column names.  Chars spells a name so that the substring tests of the   *)
(* date_cols comprehension are computed and not assumed.                   *)

Chars(name) ==
    CASE name = "order_id" -> <<"o","r","d","e","r","_","i","d">>
      [] name = "order_purchase_timestamp" ->
            <<"o","r","d","e","r","_","p","u","r","c","h","a","s","e","_",
              "t","i","m","e","s","t","a","m","p">>
      [] name = "order_delivered_customer_date" ->
            <<"o","r","d","e","r","_","d","e","l","i","v","e","r","e","d","_",
              "c","u","s","t","o","m","e","r","_","d","a","t","e">>
      [] name = "price" -> <<"p","r","i","c","e">>
      [] name = "product_category_name" ->
            <<"p","r","o","d","u","c","t","_","c","a","t","e","g","o","r","y",
              "_","n","a","m","e">>
      [] name = "review_score" ->
            <<"r","e","v","i","e","w","_","s","c","o","r","e">>
      [] name = "delivery_time_days" ->
            <<"d","e","l","i","v","e","r","y","_","t","i","m","e","_",
              "d","a","y","s">>

Contains(s, sub) ==
    \E i \in 1..(Len(s) - Len(sub) + 1) : SubSeq(s, i, i + Len(sub) - 1) = sub

\* date_cols = [col for col in df.columns if "date" in col or "timestamp" in col]
date_cols(t) ==
    {col \in t.columns :
        \/ Contains(Chars(col), <<"d","a","t","e">>)
        \/ Contains(Chars(col), <<"t","i","m","e","s","t","a","m","p">>)}

-----------------------------------------------------------------------------
(* The proleptic Gregorian calendar of pandas timestamps.                  *)

HoursPerDay == 24

DaysFromCivil(y, m, d) ==
    LET yy  == IF m <= 2 THEN y - 1 ELSE y
        era == yy \div 400
        yoe == yy - era * 400
        mp  == (m + 9) % 12
        doy == (153 * mp + 2) \div 5 + d - 1
        doe == yoe * 365 + yoe \div 4 - yoe \div 100 + doy
    IN era * 146097 + doe - 719468

CivilFromDays(z) ==
    LET zz  == z + 719468
        era == zz \div 146097
        doe == zz - era * 146097
        yoe == (doe - doe \div 1460 + doe \div 36524 - doe \div 146096) \div 365
        doy == doe - (365 * yoe + yoe \div 4 - yoe \div 100)
        mp  == (5 * doy + 2) \div 153
        d   == doy - (153 * mp + 2) \div 5 + 1
        m   == IF mp < 10 THEN mp + 3 ELSE mp - 9
        y   == yoe + era * 400 + (IF m <= 2 THEN 1 ELSE 0)
    IN [year |-> y, month |-> m, day |-> d]

IsLeap(y) == (y % 4 = 0 /\ y % 100 # 0) \/ y % 400 = 0

DaysInMonth(y, m) ==
    IF m = 2 THEN (IF IsLeap(y) THEN 29 ELSE 28)
    ELSE IF m \in {4, 6, 9, 11} THEN 30 ELSE 31

\* pd.to_datetime(..., errors='coerce') on one value of a column without UTC
\* offsets: NaN and text that is no date become NaT; a date becomes its
\* timestamp.
ParseCell(c) ==
    IF Len(c) # 4 THEN NA
    ELSE IF /\ c[2] \in 1..12
            /\ c[3] \in 1..DaysInMonth(c[1], c[2])
            /\ c[4] \in 0..(HoursPerDay - 1)
         THEN Cell(DaysFromCivil(c[1], c[2], c[3]) * HoursPerDay + c[4])
         ELSE NA

HasOffset(c) == Len(c) = 5

\* pd.to_datetime without utc=True raises ValueError ("Mixed timezones
\* detected") on a column whose texts carry different UTC offsets, whatever
\* `errors` is
ToDatetimeRaises(t, col) ==
    \E i, j \in DOMAIN t.rows :
        /\ HasOffset(t.rows[i][col]) /\ HasOffset(t.rows[j][col])
        /\ t.rows[i][col][5] # t.rows[j][col][5]

\* Series.dt.year / Series.dt.to_period('M') on one timestamp cell
YearOf(c) == IF IsNA(c) THEN NA ELSE Cell(CivilFromDays(Val(c) \div HoursPerDay).year)
PeriodOf(c) ==
    IF IsNA(c) THEN NA
    ELSE LET cv == CivilFromDays(Val(c) \div HoursPerDay) IN <<cv.year, cv.month>>
\* Period.to_timestamp(): the first instant of the month
PeriodStart(p) == DaysFromCivil(p[1], p[2], 1) * HoursPerDay
PeriodOrd(p) == p[1] * 12 + p[2]

\* (delivered - purchase).dt.days: the floor of the difference in days
DaysBetween(deliv, purch) ==
    IF IsNA(deliv) \/ IsNA(purch) THEN NA
    ELSE Cell((Val(deliv) - Val(purch)) \div HoursPerDay)

-----------------------------------------------------------------------------
(* Data preparation, lines 39-60.                                          *)

\* a column of a table: the cells of its rows, in row order
Column(t, col) == [i \in DOMAIN t.rows |-> t.rows[i][col]]

\* df[col] = cells : assign a whole column
SetColumn(t, col, cells) ==
    [t EXCEPT !.columns = @ \cup {col},
              !.rows = [i \in DOMAIN t.rows |->
                          [c \in DOMAIN t.rows[i] \cup {col} |->
                              IF c = col THEN cells[i] ELSE t.rows[i][c]]]]

\* df[mask]: the rows whose entry of the boolean mask is True, in order, index
\* labels kept
SelectRows(t, mask) ==
    LET kept == SelectSeq([i \in DOMAIN t.rows |-> i], LAMBDA i : mask[i])
    IN [t EXCEPT !.rows = [k \in DOMAIN kept |-> t.rows[kept[k]]]]

\* one iteration of the loop of lines 41-45
CoerceColumn(t, col) ==
    IF ToDatetimeRaises(t, col) THEN t                  \* except Exception: pass
    ELSE LET parsed == SetColumn(t, col, [i \in DOMAIN t.rows |-> ParseCell(t.rows[i][col])])
         IN [parsed EXCEPT !.datetime = @ \cup {col}]

RECURSIVE CoerceAll(_, _)
CoerceAll(t, cols) ==
    IF cols = {} THEN t
    ELSE LET col == CHOOSE c \in cols : TRUE
         IN CoerceAll(CoerceColumn(t, col), cols \ {col})

\* lines 40-45
CoerceDates(t) == CoerceAll(t, date_cols(t))

\* the condition of lines 48-49
MustDerive(t) ==
    /\ "delivery_time_days" \notin t.columns
    /\ "order_delivered_customer_date" \in t.columns
    /\ "order_purchase_timestamp" \in t.columns

\* lines 50-52 raise TypeError when an operand was left unparsed
DeriveRaises(t) ==
    /\ MustDerive(t)
    /\ ~ {"order_delivered_customer_date", "order_purchase_timestamp"} \subseteq t.datetime

\* lines 48-52
DeriveDelivery(t) ==
    IF MustDerive(t)
    THEN SetColumn(t, "delivery_time_days",
                   [i \in DOMAIN t.rows |->
                       DaysBetween(t.rows[i]["order_delivered_customer_date"],
                                   t.rows[i]["order_purchase_timestamp"])])
    ELSE t

\* line 55
NotNaFilter(t) ==
    SelectRows(t, [i \in DOMAIN t.rows |-> NotNA(t.rows[i]["delivery_time_days"])])
\* mutant of line 56: `> 0` for `>= 0`
StrictlyPositive(r) == NotNA(r["delivery_time_days"]) /\ Val(r["delivery_time_days"]) > 0

\* line 56 (NaN >= 0 is False)
NonNegative(r) == NotNA(r["delivery_time_days"]) /\ Val(r["delivery_time_days"]) >= 0
NonNegFilter(t) == SelectRows(t, [i \in DOMAIN t.rows |-> NonNegative(t.rows[i])])

\* lines 55-56
FilterValid(t) == NonNegFilter(NotNaFilter(t))

\* lines 59-60
AddPeriods(t) ==
    LET ym == SetColumn(t, "order_year_month",
                        [i \in DOMAIN t.rows |->
                            PeriodOf(t.rows[i]["order_purchase_timestamp"])])
    IN SetColumn(ym, "order_year",
                 [i \in DOMAIN t.rows |-> YearOf(t.rows[i]["order_purchase_timestamp"])])

-----------------------------------------------------------------------------
(* Year selector and filter, lines 67-73.                                  *)

\* line 67
YearOptions(t) ==
    LET years == {Val(t.rows[i]["order_year"]) :
                    i \in {j \in DOMAIN t.rows : NotNA(t.rows[j]["order_year"])}}
        sorted == SortInts(years)
    IN <<Semua>> \o [i \in DOMAIN sorted |-> Cell(sorted[i])]

\* mutant of lines 71-73: the sentinel keeps only the rows that have a year
YearFilterDropsMissing(t, selected) ==
    SelectRows(t, [i \in DOMAIN t.rows |->
                     IF selected = Semua THEN NotNA(t.rows[i]["order_year"])
                     ELSE t.rows[i]["order_year"] = selected])

\* lines 71-73
YearFilter(t, selected) ==
    IF selected # Semua
    THEN SelectRows(t, [i \in DOMAIN t.rows |-> t.rows[i]["order_year"] = selected])
    ELSE t

-----------------------------------------------------------------------------
(* Aggregation views, lines 91-182.  groupby drops missing keys, sorts the *)
(* groups by key, and sum / mean / nunique skip missing values.            *)

TopN == 10
HistBins == 40

\* the present values of a column of cells, as integers, in row order
Present(cells) ==
    LET kept == SelectSeq(cells, NotNA) IN [i \in DOMAIN kept |-> Val(kept[i])]

\* one group of a groupby: the rows of t whose entry in keys is k
RowsWithKey(t, keys, k) == SelectRows(t, [i \in DOMAIN t.rows |-> keys[i] = k])

\* Series.sum() / Series.nunique() of column col
SumOf(t, col) == SumSeq(Present(Column(t, col)))
NUnique(t, col) == Cardinality(Range(Column(t, col)) \ {NA})

RECURSIVE Gcd(_, _)
Gcd(a, b) == IF b = 0 THEN a ELSE Gcd(b, a % b)

\* mutant of lines 165 and 179: sum() for mean()
SumForMean(t, col) == [num |-> SumSeq(Present(Column(t, col))), den |-> 1]

\* Series.mean() of a non-missing integer column, as a fraction in lowest terms
MeanOf(t, col) ==
    LET xs == Present(Column(t, col))
        g  == Gcd(SumSeq(xs), Len(xs))
    IN [num |-> SumSeq(xs) \div g, den |-> Len(xs) \div g]

\* filtered_df['order_purchase_timestamp'].dt.to_period('M')
MonthKeys(t) == [i \in DOMAIN t.rows |-> PeriodOf(t.rows[i]["order_purchase_timestamp"])]

RECURSIVE SortPeriods(_)
SortPeriods(S) ==
    IF S = {} THEN <<>>
    ELSE LET p == CHOOSE q \in S : \A o \in S : PeriodOrd(q) <= PeriodOrd(o)
         IN <<p>> \o SortPeriods(S \ {p})

\* the group keys of groupby(order_purchase_timestamp.dt.to_period('M'))
MonthGroups(t) == SortPeriods(Range(MonthKeys(t)) \ {NA})

\* mutant of lines 91-96: count() for nunique()
OrdersPerMonthCount(t) ==
    LET months == MonthGroups(t)
    IN [i \in DOMAIN months |->
          [order_purchase_timestamp |-> Cell(PeriodStart(months[i])),
           num_orders |->
               Len(Present(Column(RowsWithKey(t, MonthKeys(t), months[i]), "order_id")))]]

\* lines 91-96
OrdersPerMonth(t) ==
    LET months == MonthGroups(t)
    IN [i \in DOMAIN months |->
          [order_purchase_timestamp |-> Cell(PeriodStart(months[i])),
           num_orders |-> NUnique(RowsWithKey(t, MonthKeys(t), months[i]), "order_id")]]

\* mutant of lines 109-114: the price of each month's first row only
RevenuePerMonthFirst(t) ==
    LET months == MonthGroups(t)
    IN [i \in DOMAIN months |->
          [order_purchase_timestamp |-> Cell(PeriodStart(months[i])),
           price |-> LET xs == Present(Column(RowsWithKey(t, MonthKeys(t), months[i]), "price"))
                     IN IF xs = <<>> THEN 0 ELSE xs[1]]]

\* lines 109-114
RevenuePerMonth(t) ==
    LET months == MonthGroups(t)
    IN [i \in DOMAIN months |->
          [order_purchase_timestamp |-> Cell(PeriodStart(months[i])),
           price |-> SumOf(RowsWithKey(t, MonthKeys(t), months[i]), "price")]]

\* groupby('product_category_name')['price'].sum(), lines 128-129
CategoryRevenue(t) ==
    {[product_category_name |-> k,
      price |-> SumOf(RowsWithKey(t, Column(t, "product_category_name"), k), "price")] :
        k \in Range(Column(t, "product_category_name")) \ {NA}}

\* mutant of line 130: ascending=True
FirstOfAscending(S) == {g \in S : \A o \in S : g.price <= o.price}

\* what sort_values puts first: a group of the largest revenue
FirstOf(S) == {g \in S : \A o \in S : g.price >= o.price}

RECURSIVE Orderings(_, _)
\* sort_values(ascending=False), line 130: the default sort is not stable, so
\* equal revenues may come out in any order; first n rows of every outcome
Orderings(S, n) ==
    IF S = {} \/ n = 0 THEN {<<>>}
    ELSE UNION {{<<g>> \o rest : rest \in Orderings(S \ {g}, n - 1)} : g \in FirstOf(S)}

\* lines 127-133: the outcomes of sort_values(ascending=False).head(10)
Top10Products(t) == Orderings(CategoryRevenue(t), TopN)

\* line 155: np.histogram's equal-width bins over [min, max], the last bin
\* closed; a single value gets the range [v - 0.5, v + 0.5]
HistBin(v, lo, hi) ==
    IF hi = lo THEN HistBins \div 2 + 1
    ELSE IF v = hi THEN HistBins
    ELSE ((v - lo) * HistBins) \div (hi - lo) + 1

DeliveryHist(t) ==
    LET xs == Present(Column(t, "delivery_time_days"))
        lo == CHOOSE x \in Range(xs) : \A y \in Range(xs) : x <= y
        hi == CHOOSE x \in Range(xs) : \A y \in Range(xs) : x >= y
    IN IF xs = <<>> THEN [b \in 1..HistBins |-> 0]
       ELSE [b \in 1..HistBins |->
               Cardinality({i \in DOMAIN xs : HistBin(xs[i], lo, hi) = b})]

\* groupby('review_score')['delivery_time_days'].mean().reset_index()
ReviewGroups(t) ==
    LET scores == SortInts(Range(Present(Column(t, "review_score"))))
    IN [i \in DOMAIN scores |->
          [review_score |-> scores[i],
           delivery_time_days |->
               MeanOf(RowsWithKey(t, Column(t, "review_score"), Cell(scores[i])),
                      "delivery_time_days")]]

\* lines 163-167
DeliveryVsReview(t) == ReviewGroups(t)

RECURSIVE SortByScore(_)
\* sort_values(by='review_score', ascending=True), line 181
SortByScore(s) ==
    IF s = <<>> THEN <<>>
    ELSE LET i == CHOOSE j \in DOMAIN s : \A k \in DOMAIN s : s[j].review_score <= s[k].review_score
         IN <<s[i]>> \o SortByScore([k \in 1..(Len(s) - 1) |-> IF k < i THEN s[k] ELSE s[k + 1]])

\* lines 177-182
AvgDelivery(t) == SortByScore(ReviewGroups(t))

-----------------------------------------------------------------------------
(* The input files the model runs on.                                      *)

AllColumns ==
    {"order_id", "order_purchase_timestamp", "order_delivered_customer_date",
     "price", "product_category_name", "review_score", "delivery_time_days"}

\* date texts of the file: noon of 2017-12-31, midnight of 2018-01-01,
\* noon of 2018-01-02, 06:00 of 2018-02-01, and the 30th of February
T_DEC31 == <<2017, 12, 31, 12>>
T_JAN1 == <<2018, 1, 1, 0>>
T_JAN2 == <<2018, 1, 2, 12>>
T_FEB1 == <<2018, 2, 1, 6>>
T_BAD == <<2018, 2, 30, 0>>

RawRow(oid, purch, deliv, price, cat, score, dtd) ==
    [order_id |-> oid, order_purchase_timestamp |-> purch,
     order_delivered_customer_date |-> deliv, price |-> price,
     product_category_name |-> cat, review_score |-> score,
     delivery_time_days |-> dtd]

\* rows that differ in the delivery time the file already holds
PoolValidity ==
    {RawRow(Cell(1), purch, T_JAN2, Cell(2), Cell("a"), Cell(5), dtd) :
        purch \in {NA, T_JAN1}, dtd \in {NA, Cell(-1), Cell(0)}}

\* rows that differ in month and order
PoolMonths ==
    {RawRow(oid, purch, T_JAN2, Cell(2), Cell("a"), Cell(5), Cell(1)) :
        oid \in {Cell(1), Cell(2)}, purch \in {NA, T_JAN1, T_FEB1}}
    \cup {RawRow(NA, T_JAN1, T_JAN2, Cell(2), Cell("a"), Cell(5), Cell(1))}

\* rows that differ in year and price
PoolRevenue ==
    {RawRow(Cell(1), purch, T_JAN2, price, Cell("a"), Cell(5), Cell(1)) :
        purch \in {NA, T_DEC31, T_JAN1}, price \in {Cell(1), Cell(2)}}
    \cup {RawRow(Cell(1), T_JAN1, T_JAN2, NA, Cell("a"), Cell(5), Cell(1))}

\* rows that differ in category and price
PoolCategory ==
    {RawRow(Cell(1), T_JAN1, T_JAN2, price, cat, Cell(5), Cell(1)) :
        cat \in {NA, Cell("a"), Cell("b")}, price \in {Cell(1), Cell(2)}}

\* rows that differ in review score and delivery time
PoolReview ==
    {RawRow(Cell(1), T_JAN1, T_JAN2, Cell(2), Cell("a"), score, dtd) :
        score \in {NA, Cell(4), Cell(5)}, dtd \in {Cell(0), Cell(3)}}

\* rows that differ in the two timestamps the delivery time is derived from
PoolDerive ==
    {RawRow(Cell(1), purch, deliv, Cell(2), Cell("a"), Cell(5), NA) :
        purch \in {T_BAD, T_JAN1}, deliv \in {NA, T_DEC31, T_JAN2}}

SeqsUpTo(S, n) == UNION {[1..k -> S] : k \in 0..n}

\* the data of a file that holds delivery_time_days
NarrowData ==
    UNION {SeqsUpTo(P, MaxRows) :
            P \in {PoolValidity, PoolMonths, PoolRevenue, PoolCategory, PoolReview}}

\* more than TopN categories: row i sells category "i"; the first rows have
\* distinct large prices, the others a price of 1 or 2, and the last row may
\* sell category "1" as well
WideFixed == 8
WideData ==
    UNION {{[i \in 1..n |->
                RawRow(Cell(i), T_JAN1, T_JAN2,
                       Cell(IF i <= WideFixed THEN 20 + i ELSE prices[i]),
                       Cell(ToString(IF i = n /\ shared THEN 1 ELSE i)),
                       Cell(5), Cell(1))] :
              prices \in [(WideFixed + 1)..n -> {1, 2}], shared \in BOOLEAN} :
           n \in (TopN + 1)..MaxWide}

\* the layouts of the file: the columns it lacks and the columns that hold
\* texts with mixed UTC offsets (when the file has two rows or more)
FullLayout == <<{}, {}>>
DeriveLayout == <<{"delivery_time_days"}, {}>>
OddLayouts ==
    {lb \in
        {{}, {"delivery_time_days"},
         {"delivery_time_days", "order_delivered_customer_date"},
         {"delivery_time_days", "order_purchase_timestamp"},
         {"order_purchase_timestamp"}}
        \X {{}, {"order_purchase_timestamp"}, {"order_delivered_customer_date"}} :
        lb[2] \cap lb[1] = {} /\ lb \notin {FullLayout, DeriveLayout}}

\* pd.read_csv: every column an object / numeric column, a default RangeIndex
MakeFile(lack, mixed, data) ==
    [found |-> TRUE,
     columns |-> AllColumns \ lack,
     datetime |-> {},
     rows |-> [i \in DOMAIN data |->
                 [c \in (AllColumns \ lack) \cup {"index"} |->
                     IF c = "index" THEN Cell(i - 1)
                     ELSE IF c \in mixed /\ Len(data) >= 2
                          THEN <<2018, 1, i, 0, i % 2>>
                     ELSE data[i][c]]]]

InputFiles ==
    {NoFile}
    \cup {MakeFile(FullLayout[1], FullLayout[2], data) : data \in NarrowData \cup WideData}
    \cup {MakeFile(DeriveLayout[1], DeriveLayout[2], data) : data \in SeqsUpTo(PoolDerive, MaxRows)}
    \cup {MakeFile(lb[1], lb[2], data) : lb \in OddLayouts, data \in SeqsUpTo(PoolValidity, MaxRows)}

-----------------------------------------------------------------------------
(* The script, statement by statement.                                     *)

FileTable(f) == [columns |-> f.columns, datetime |-> f.datetime, rows |-> f.rows]

\* the state of a run before its first statement
FreshRun ==
    /\ df = NoTable
    /\ tahun_opsi = <<>>
    /\ filtered_df = NoTable
    /\ orders_per_month = <<>>
    /\ revenue_per_month = <<>>
    /\ top10_products = <<>>
    /\ delivery_hist = <<>>
    /\ delivery_vs_review = <<>>
    /\ avg_delivery = <<>>
    /\ messages = <<>>
    /\ exception = "none"
    /\ bound = {}

\* a re-run starts from the same state
ResetRun ==
    /\ df' = NoTable
    /\ tahun_opsi' = <<>>
    /\ filtered_df' = NoTable
    /\ orders_per_month' = <<>>
    /\ revenue_per_month' = <<>>
    /\ top10_products' = <<>>
    /\ delivery_hist' = <<>>
    /\ delivery_vs_review' = <<>>
    /\ avg_delivery' = <<>>
    /\ messages' = <<>>
    /\ exception' = "none"
    /\ bound' = {}

Init ==
    /\ csv \in InputFiles
    /\ cache = <<>>
    /\ pc = "load"
    /\ tahun_terpilih = Semua
    /\ FreshRun

\* an uncaught exception ends the run
Raise(name) ==
    /\ exception' = name
    /\ pc' = "crashed"
    /\ UNCHANGED <<csv, cache, df, tahun_opsi, tahun_terpilih, filtered_df, views,
                   messages, bound>>

\* lines 26-31, first call: read_csv succeeds and the result is cached
LoadMiss ==
    /\ pc = "load" /\ cache = <<>> /\ csv.found
    /\ cache' = <<FileTable(csv)>>
    /\ df' = FileTable(csv)
    /\ bound' = bound \cup {"df"}
    /\ pc' = "coerce"
    /\ UNCHANGED <<csv, tahun_opsi, tahun_terpilih, filtered_df, views, messages,
                   exception>>

\* lines 25, 31: st.cache_data hands out a copy of the cached table
LoadHit ==
    /\ pc = "load" /\ cache # <<>>
    /\ df' = cache[1]
    /\ bound' = bound \cup {"df"}
    /\ pc' = "coerce"
    /\ UNCHANGED <<csv, cache, tahun_opsi, tahun_terpilih, filtered_df, views,
                   messages, exception>>

\* mutant of lines 32-34: st.stop() left out
LoadFailNoStop ==
    /\ pc = "load" /\ cache = <<>> /\ ~csv.found
    /\ messages' = Append(messages, "File 'olist_cleaned_dataset.csv' tidak ditemukan.")
    /\ pc' = "coerce"
    /\ UNCHANGED <<csv, cache, df, tahun_opsi, tahun_terpilih, filtered_df, views,
                   exception, bound>>

\* lines 32-34: FileNotFoundError, st.error, st.stop
LoadFail ==
    /\ pc = "load" /\ cache = <<>> /\ ~csv.found
    /\ messages' = Append(messages, "File 'olist_cleaned_dataset.csv' tidak ditemukan.")
    /\ pc' = "stopped"
    /\ UNCHANGED <<csv, cache, df, tahun_opsi, tahun_terpilih, filtered_df, views,
                   exception, bound>>

\* lines 40-45
Coerce ==
    /\ pc = "coerce"
    /\ df' = CoerceDates(df)
    /\ pc' = "derive"
    /\ UNCHANGED <<csv, cache, tahun_opsi, tahun_terpilih, filtered_df, views,
                   messages, exception, bound>>

\* lines 48-52
Derive ==
    /\ pc = "derive" /\ ~DeriveRaises(df)
    /\ df' = DeriveDelivery(df)
    /\ pc' = "filter"
    /\ UNCHANGED <<csv, cache, tahun_opsi, tahun_terpilih, filtered_df, views,
                   messages, exception, bound>>

DeriveFail ==
    /\ pc = "derive" /\ DeriveRaises(df)
    /\ Raise("TypeError")

\* lines 55-56
Filter ==
    /\ pc = "filter" /\ "delivery_time_days" \in df.columns
    /\ df' = FilterValid(df)
    /\ pc' = "period"
    /\ UNCHANGED <<csv, cache, tahun_opsi, tahun_terpilih, filtered_df, views,
                   messages, exception, bound>>

\* mutant of line 55: an absent column read as a column of missing values
FilterAbsentAsMissing ==
    /\ pc = "filter" /\ "delivery_time_days" \notin df.columns
    /\ df' = [df EXCEPT !.rows = <<>>]
    /\ pc' = "period"
    /\ UNCHANGED <<csv, cache, tahun_opsi, tahun_terpilih, filtered_df, views,
                   messages, exception, bound>>

\* line 55: df['delivery_time_days'] of a table without the column
FilterFail ==
    /\ pc = "filter" /\ "delivery_time_days" \notin df.columns
    /\ Raise("KeyError")

\* lines 59-60
Period ==
    /\ pc = "period" /\ "order_purchase_timestamp" \in df.datetime
    /\ df' = AddPeriods(df)
    /\ pc' = "options"
    /\ UNCHANGED <<csv, cache, tahun_opsi, tahun_terpilih, filtered_df, views,
                   messages, exception, bound>>

\* line 59: no such column, or .dt of a column that was left unparsed
PeriodFail ==
    /\ pc = "period" /\ "order_purchase_timestamp" \notin df.datetime
    /\ Raise(IF "order_purchase_timestamp" \in df.columns
             THEN "AttributeError" ELSE "KeyError")

\* lines 67-68: the selectbox shows its first option until the user picks one
Options ==
    /\ pc = "options"
    /\ tahun_opsi' = YearOptions(df)
    /\ tahun_terpilih' =
          IF \E i \in DOMAIN tahun_opsi' : tahun_opsi'[i] = tahun_terpilih
          THEN tahun_terpilih ELSE tahun_opsi'[1]
    /\ bound' = bound \cup {"tahun_opsi", "tahun_terpilih"}
    /\ pc' = "year_filter"
    /\ UNCHANGED <<csv, cache, df, filtered_df, views, messages, exception>>

\* mutant of lines 71-73: the filter assigned to df itself
ApplyYearFilterInPlace ==
    /\ pc = "year_filter"
    /\ df' = YearFilter(df, tahun_terpilih)
    /\ filtered_df' = df'
    /\ bound' = bound \cup {"filtered_df"}
    /\ pc' = "orders"
    /\ UNCHANGED <<csv, cache, tahun_opsi, tahun_terpilih, views, messages,
                   exception>>

\* lines 71-73
ApplyYearFilter ==
    /\ pc = "year_filter"
    /\ filtered_df' = YearFilter(df, tahun_terpilih)
    /\ bound' = bound \cup {"filtered_df"}
    /\ pc' = "orders"
    /\ UNCHANGED <<csv, cache, df, tahun_opsi, tahun_terpilih, views, messages,
                   exception>>

\* lines 91-96
ViewOrders ==
    /\ pc = "orders"
    /\ orders_per_month' = OrdersPerMonth(filtered_df)
    /\ bound' = bound \cup {"orders_per_month"}
    /\ pc' = "revenue"
    /\ UNCHANGED <<csv, cache, df, tahun_opsi, tahun_terpilih, filtered_df,
                   revenue_per_month, top10_products, delivery_hist,
                   delivery_vs_review, avg_delivery, messages, exception>>

\* lines 109-114
ViewRevenue ==
    /\ pc = "revenue"
    /\ revenue_per_month' = RevenuePerMonth(filtered_df)
    /\ bound' = bound \cup {"revenue_per_month"}
    /\ pc' = "top10"
    /\ UNCHANGED <<csv, cache, df, tahun_opsi, tahun_terpilih, filtered_df,
                   orders_per_month, top10_products, delivery_hist,
                   delivery_vs_review, avg_delivery, messages, exception>>

\* lines 127-133
ViewTop10 ==
    /\ pc = "top10"
    /\ top10_products' \in Top10Products(filtered_df)
    /\ bound' = bound \cup {"top10_products"}
    /\ pc' = "hist"
    /\ UNCHANGED <<csv, cache, df, tahun_opsi, tahun_terpilih, filtered_df,
                   orders_per_month, revenue_per_month, delivery_hist,
                   delivery_vs_review, avg_delivery, messages, exception>>

\* line 155
ViewHist ==
    /\ pc = "hist"
    /\ delivery_hist' = DeliveryHist(filtered_df)
    /\ bound' = bound \cup {"delivery_hist"}
    /\ pc' = "delivery_vs_review"
    /\ UNCHANGED <<csv, cache, df, tahun_opsi, tahun_terpilih, filtered_df,
                   orders_per_month, revenue_per_month, top10_products,
                   delivery_vs_review, avg_delivery, messages, exception>>

\* lines 163-167
ViewDeliveryVsReview ==
    /\ pc = "delivery_vs_review"
    /\ delivery_vs_review' = DeliveryVsReview(filtered_df)
    /\ bound' = bound \cup {"delivery_vs_review"}
    /\ pc' = "avg_delivery"
    /\ UNCHANGED <<csv, cache, df, tahun_opsi, tahun_terpilih, filtered_df,
                   orders_per_month, revenue_per_month, top10_products,
                   delivery_hist, avg_delivery, messages, exception>>

\* lines 177-182
ViewAvgDelivery ==
    /\ pc = "avg_delivery"
    /\ avg_delivery' = AvgDelivery(filtered_df)
    /\ bound' = bound \cup {"avg_delivery"}
    /\ pc' = "done"
    /\ UNCHANGED <<csv, cache, df, tahun_opsi, tahun_terpilih, filtered_df,
                   orders_per_month, revenue_per_month, top10_products,
                   delivery_hist, delivery_vs_review, messages, exception>>

\* line 68: the user picks another option and the script runs again from
\* the top with fresh names; the cache and the widget state survive
SelectYear ==
    /\ pc = "done"
    /\ \E i \in DOMAIN tahun_opsi :
          /\ tahun_opsi[i] # tahun_terpilih
          /\ tahun_terpilih' = tahun_opsi[i]
    /\ pc' = "load"
    /\ ResetRun
    /\ UNCHANGED <<csv, cache>>

Next ==
    \/ LoadMiss \/ LoadHit \/ LoadFail
    \/ Coerce
    \/ Derive \/ DeriveFail
    \/ Filter \/ FilterFail
    \/ Period \/ PeriodFail
    \/ Options \/ ApplyYearFilter
    \/ ViewOrders \/ ViewRevenue \/ ViewTop10 \/ ViewHist
    \/ ViewDeliveryVsReview \/ ViewAvgDelivery
    \/ SelectYear

Spec == Init /\ [][Next]_vars

-----------------------------------------------------------------------------
(* Properties.                                                             *)

\* the statements after data preparation (lines 39-60) has completed
AfterPreparation ==
    {"options", "year_filter", "orders", "revenue", "top10", "hist",
     "delivery_vs_review", "avg_delivery", "done"}

RowsOf(t) == Range(t.rows)
IndexOf(r) == Val(r["index"]) + 1           \* the file row a table row came from
Total(view, field) == SumSeq([i \in DOMAIN view |-> view[i][field]])

\* the delivery time of file row i as the claim C1 words it: the one the file
\* holds, or delivered minus purchase in whole days
ClaimedDays(i) ==
    LET raw == cache[1]
        r == raw.rows[i]
        deliv == ParseCell(r["order_delivered_customer_date"])
        purch == ParseCell(r["order_purchase_timestamp"])
    IN IF "delivery_time_days" \in raw.columns THEN r["delivery_time_days"]
       ELSE IF deliv = NA \/ purch = NA THEN NA
       ELSE Cell((Val(deliv) - Val(purch)) \div 24)

\* file row i has no delivery date and the file has no delivery_time_days
Undelivered(i) ==
    LET raw == cache[1]
    IN /\ "delivery_time_days" \notin raw.columns
       /\ \/ "order_delivered_customer_date" \notin raw.columns
          \/ ParseCell(raw.rows[i]["order_delivered_customer_date"]) = NA

\* C1: after data preparation every row of the prepared table has a present,
\* non-negative delivery_time_days; a row of the file is kept exactly when its
\* delivery time (held by the file, or derived in whole days) is present and
\* non-negative; the kept rows keep their order and their values; a row without
\* delivery date and without a delivery time of its own is in no table a view
\* reads.
C1_PreparedRowsValid ==
    /\ pc \in AfterPreparation =>
        LET raw == cache[1] IN
        /\ \A k \in DOMAIN df.rows :
              /\ df.rows[k]["delivery_time_days"] # NA
              /\ Val(df.rows[k]["delivery_time_days"]) >= 0
              /\ df.rows[k]["delivery_time_days"] = ClaimedDays(IndexOf(df.rows[k]))
              /\ \A c \in raw.columns :
                    df.rows[k][c] =
                        IF c \in df.datetime
                        THEN ParseCell(raw.rows[IndexOf(df.rows[k])][c])
                        ELSE raw.rows[IndexOf(df.rows[k])][c]
        /\ \A i \in DOMAIN raw.rows :
              (\E k \in DOMAIN df.rows : IndexOf(df.rows[k]) = i)
                  <=> (ClaimedDays(i) # NA /\ Val(ClaimedDays(i)) >= 0)
        /\ \A k, l \in DOMAIN df.rows :
              k < l => IndexOf(df.rows[k]) < IndexOf(df.rows[l])
    /\ cache # <<>> =>
        \A i \in DOMAIN cache[1].rows :
            Undelivered(i) =>
                /\ \A r \in RowsOf(filtered_df) : IndexOf(r) # i
                /\ pc \in AfterPreparation => \A r \in RowsOf(df) : IndexOf(r) # i

\* a derived delivery time: one row kept, one dropped for its missing delivery
\* date, one dropped for a delivery before the purchase
C1_Witness ==
    /\ pc = "done"
    /\ "delivery_time_days" \notin cache[1].columns
    /\ df.rows # <<>>
    /\ \E i \in DOMAIN cache[1].rows : Undelivered(i)
    /\ \E i \in DOMAIN cache[1].rows : ClaimedDays(i) # NA /\ Val(ClaimedDays(i)) < 0

\* C2: the options of the selector are 'Semua' followed by the distinct
\* non-missing years of the prepared table in ascending order; under 'Semua' the
\* filtered table is the prepared table, rows without a year included; under a
\* year it holds exactly the rows of that year.
C2_YearFilterExact ==
    "filtered_df" \in bound =>
        /\ tahun_opsi[1] = Semua
        /\ \A i \in 2..Len(tahun_opsi) :
              /\ \E r \in RowsOf(df) : r["order_year"] = tahun_opsi[i]
              /\ i > 2 => Val(tahun_opsi[i - 1]) < Val(tahun_opsi[i])
        /\ \A r \in RowsOf(df) :
              r["order_year"] # NA =>
                  \E i \in 2..Len(tahun_opsi) : tahun_opsi[i] = r["order_year"]
        /\ \E i \in DOMAIN tahun_opsi : tahun_opsi[i] = tahun_terpilih
        /\ tahun_terpilih = Semua => filtered_df.rows = df.rows
        /\ tahun_terpilih # Semua =>
              /\ \A r \in RowsOf(df) :
                    r \in RowsOf(filtered_df) <=> r["order_year"] = tahun_terpilih
              /\ RowsOf(filtered_df) \subseteq RowsOf(df)
              /\ Len(filtered_df.rows) = Cardinality(RowsOf(filtered_df))

\* a year is selected, and the filter has left out a row of another year and
\* a row without a year
C2_Witness ==
    /\ pc = "done"
    /\ tahun_terpilih # Semua
    /\ filtered_df.rows # <<>>
    /\ \E r \in RowsOf(df) : r["order_year"] = NA
    /\ \E r \in RowsOf(df) : r["order_year"] \notin {NA, tahun_terpilih}

\* the (month, order_id) pairs of a table, missing months and ids left out
MonthOrders(t) ==
    {<<PeriodOf(r["order_purchase_timestamp"]), r["order_id"]>> :
        r \in {q \in RowsOf(t) :
                 q["order_purchase_timestamp"] # NA /\ q["order_id"] # NA}}
OrderIds(t) == {r["order_id"] : r \in RowsOf(t)} \ {NA}

\* C3 as stated: the monthly distinct-order counts add up to the number of
\* distinct order_id values of the filtered table.
C3_SumIsDistinctOrders ==
    "orders_per_month" \in bound =>
        Total(orders_per_month, "num_orders") = Cardinality(OrderIds(filtered_df))

\* C3 amended: the view has one row per month of the filtered table, in
\* chronological order, and its counts add up to the number of distinct
\* (month, order_id) pairs among the rows that have a purchase timestamp; that
\* is the number of distinct order_id values when every row has a purchase
\* timestamp and no order has rows in two months.
C3_SumIsMonthOrderPairs ==
    "orders_per_month" \in bound =>
        /\ Total(orders_per_month, "num_orders") = Cardinality(MonthOrders(filtered_df))
        /\ {orders_per_month[i].order_purchase_timestamp : i \in DOMAIN orders_per_month}
             = {Cell(PeriodStart(PeriodOf(r["order_purchase_timestamp"]))) :
                  r \in {q \in RowsOf(filtered_df) : q["order_purchase_timestamp"] # NA}}
        /\ \A i \in 2..Len(orders_per_month) :
              Val(orders_per_month[i - 1].order_purchase_timestamp)
                  < Val(orders_per_month[i].order_purchase_timestamp)
        /\ ( /\ \A r \in RowsOf(filtered_df) : r["order_purchase_timestamp"] # NA
             /\ \A p, q \in MonthOrders(filtered_df) : p[2] = q[2] => p[1] = q[1] )
           => Total(orders_per_month, "num_orders") = Cardinality(OrderIds(filtered_df))

\* two months, a row without purchase timestamp, and a total that is not the
\* number of distinct orders
C3_Witness ==
    /\ "orders_per_month" \in bound
    /\ Len(orders_per_month) = 2
    /\ \E r \in RowsOf(filtered_df) : r["order_purchase_timestamp"] = NA
    /\ Total(orders_per_month, "num_orders") # Cardinality(OrderIds(filtered_df))

\* the sum of the present prices of a set of rows
RECURSIVE PriceOf(_)
PriceOf(rows) ==
    IF rows = {} THEN 0
    ELSE LET r == CHOOSE q \in rows : TRUE
         IN (IF r["price"] = NA THEN 0 ELSE Val(r["price"])) + PriceOf(rows \ {r})
Dated(t) == {r \in RowsOf(t) : r["order_purchase_timestamp"] # NA}

\* C4 as stated: the monthly revenues add up to the sum of price over all rows
\* of the filtered table.
C4_RevenueConserved ==
    "revenue_per_month" \in bound =>
        Total(revenue_per_month, "price") = PriceOf(RowsOf(filtered_df))

\* C4 amended: the monthly revenues add up to the sum of price over the rows of
\* the filtered table that have a purchase timestamp; under a selected year
\* these are all its rows.
C4_RevenueOfDatedRows ==
    "revenue_per_month" \in bound =>
        /\ Total(revenue_per_month, "price") = PriceOf(Dated(filtered_df))
        /\ tahun_terpilih # Semua =>
              Total(revenue_per_month, "price") = PriceOf(RowsOf(filtered_df))
        /\ \A i \in 2..Len(revenue_per_month) :
              Val(revenue_per_month[i - 1].order_purchase_timestamp)
                  < Val(revenue_per_month[i].order_purchase_timestamp)

\* two months of revenue and a priced row without purchase timestamp, whose
\* price is in no month
C4_Witness ==
    /\ "revenue_per_month" \in bound
    /\ Len(revenue_per_month) = 2
    /\ \E r \in RowsOf(filtered_df) : r["order_purchase_timestamp"] = NA /\ r["price"] # NA
    /\ Total(revenue_per_month, "price") < PriceOf(RowsOf(filtered_df))

\* the categories of a table and the revenue of one of them
Categories(t) == {r["product_category_name"] : r \in RowsOf(t)} \ {NA}
RevenueOf(t, k) == PriceOf({r \in RowsOf(t) : r["product_category_name"] = k})
Listed(view) == {view[i].product_category_name : i \in DOMAIN view}

\* C5: the top-10 view has at most 10 rows, one per category, each with the
\* sum of price of the category's rows, in descending order of that sum, and no
\* category left out has a larger sum than a category listed.
C5_Top10Ordered ==
    "top10_products" \in bound =>
        /\ Len(top10_products) <= 10
        /\ Len(top10_products) = Cardinality(Listed(top10_products))
        /\ Listed(top10_products) \subseteq Categories(filtered_df)
        /\ Cardinality(Categories(filtered_df)) <= 10 =>
              Listed(top10_products) = Categories(filtered_df)
        /\ Cardinality(Categories(filtered_df)) > 10 => Len(top10_products) = 10
        /\ \A i \in DOMAIN top10_products :
              top10_products[i].price
                  = RevenueOf(filtered_df, top10_products[i].product_category_name)
        /\ \A i \in 2..Len(top10_products) :
              top10_products[i - 1].price >= top10_products[i].price
        /\ \A k \in Categories(filtered_df) \ Listed(top10_products) :
              \A i \in DOMAIN top10_products :
                  top10_products[i].price >= RevenueOf(filtered_df, k)

\* more than ten categories, one of them with two rows, and a category left
\* out with the revenue of the last one listed
C5_Witness ==
    /\ "top10_products" \in bound
    /\ Cardinality(Categories(filtered_df)) > 10
    /\ Cardinality(Categories(filtered_df)) < Len(filtered_df.rows)
    /\ \E k \in Categories(filtered_df) \ Listed(top10_products) :
          RevenueOf(filtered_df, k) = top10_products[Len(top10_products)].price

\* the rows of a table with review score k
Scored(t, k) == {r \in RowsOf(t) : r["review_score"] = Cell(k)}
Scores(t) == {Val(r["review_score"]) : r \in {q \in RowsOf(t) : q["review_score"] # NA}}
DaysOfScore(t, k) ==
    SumSeq([i \in DOMAIN t.rows |->
              IF t.rows[i]["review_score"] = Cell(k)
              THEN Val(t.rows[i]["delivery_time_days"]) ELSE 0])

\* C6: avg_delivery has one row per non-missing review_score of the filtered
\* table, in ascending order of score, with the arithmetic mean of
\* delivery_time_days over the rows of that score; delivery_vs_review holds the
\* same rows; a row without review_score is in no group.
C6_MeanPerScore ==
    "avg_delivery" \in bound =>
        /\ {avg_delivery[i].review_score : i \in DOMAIN avg_delivery} = Scores(filtered_df)
        /\ Len(avg_delivery) = Cardinality(Scores(filtered_df))
        /\ \A i \in 2..Len(avg_delivery) :
              avg_delivery[i - 1].review_score < avg_delivery[i].review_score
        /\ \A i \in DOMAIN avg_delivery :
              LET m == avg_delivery[i].delivery_time_days
                  k == avg_delivery[i].review_score
              IN /\ m.den > 0
                 /\ m.num * Cardinality(Scored(filtered_df, k))
                       = m.den * DaysOfScore(filtered_df, k)
        /\ Range(delivery_vs_review) = Range(avg_delivery)
        /\ Len(delivery_vs_review) = Len(avg_delivery)

\* a row without review score beside two rows of one score whose mean is no
\* whole number
C6_Witness ==
    /\ "avg_delivery" \in bound
    /\ \E r \in RowsOf(filtered_df) : r["review_score"] = NA
    /\ \E i \in DOMAIN avg_delivery : avg_delivery[i].delivery_time_days.den = 2

\* C7: when the file is not found the run shows one error message and stops:
\* it never prepares, filters or computes a view.
C7_LoadFailureHalts ==
    ~csv.found =>
        /\ pc \in {"load", "stopped"}
        /\ pc = "load" => messages = <<>>
        /\ pc = "stopped" => Len(messages) = 1
        /\ exception = "none"
        /\ bound = {}
        /\ df = NoTable /\ filtered_df = NoTable
        /\ views = <<<<>>, <<>>, <<>>, <<>>, <<>>, <<>>>>

\* the load has failed and the run has stopped
C7_Witness == ~csv.found /\ pc = "stopped" /\ Len(messages) = 1

\* the file has no delivery_time_days and lacks a timestamp to derive it from
LacksDeliverySources(t) ==
    /\ "delivery_time_days" \notin t.columns
    /\ ~ {"order_delivered_customer_date", "order_purchase_timestamp"} \subseteq t.columns

\* C8 as stated: without delivery_time_days and without one of its source
\* columns the run does not end in an error; it completes with an empty
\* prepared table.
C8_CompletesEmpty ==
    (cache # <<>> /\ LacksDeliverySources(cache[1])) =>
        /\ exception = "none"
        /\ pc \in AfterPreparation => df.rows = <<>>

\* C8 amended: without delivery_time_days and without one of its source columns
\* the column stays absent and the filter's lookup of it raises KeyError: the
\* run ends there with its rows unfiltered, and no prepared table, year filter
\* or view is produced.
C8_EndsInKeyError ==
    (cache # <<>> /\ LacksDeliverySources(cache[1])) =>
        /\ pc \in {"coerce", "derive", "filter", "crashed"}
        /\ pc \in {"filter", "crashed"} => "delivery_time_days" \notin df.columns
        /\ pc = "crashed" =>
              /\ exception = "KeyError"
              /\ Len(df.rows) = Len(cache[1].rows)
              /\ bound = {"df"}
        /\ filtered_df = NoTable
        /\ views = <<<<>>, <<>>, <<>>, <<>>, <<>>, <<>>>>

\* such a file with rows, and the run ended by the KeyError
C8_Witness ==
    /\ cache # <<>> /\ LacksDeliverySources(cache[1])
    /\ cache[1].rows # <<>>
    /\ pc = "crashed" /\ exception = "KeyError"

\* a step of a run whose table is prepared leaves df as it is (only a new run,
\* started from "done", rebinds df), and no step changes the cached file
PreparedKept ==
    /\ (pc \in AfterPreparation \ {"done"}) => (df' = df)
    /\ (cache # <<>>) => (cache' = cache)

\* C9: once the table is prepared, the selector, the year filter and the six
\* views leave it unchanged, and the cached file it is prepared from in every
\* run is never changed either.
C9_PreparedTableUnchanged == [][PreparedKept]_vars

\* a second run under a selected year: the filtered table is smaller than the
\* prepared one and every view is computed
C9_Witness ==
    /\ pc = "done"
    /\ tahun_terpilih # Semua
    /\ Len(filtered_df.rows) > 0
    /\ Len(filtered_df.rows) < Len(df.rows)

\* a date column whose parse raises
ParseFails(t, col) == col \in date_cols(t) /\ ToDatetimeRaises(t, col)

\* C10: a date column whose parse fails is left as the file holds it, no error
\* is surfaced and the run does not halt; the other date columns are coerced.
C10_BestEffortCoercion ==
    (cache # <<>> /\ pc \notin {"load", "coerce"}) =>
        \A col \in date_cols(cache[1]) :
            IF ParseFails(cache[1], col)
            THEN /\ exception = "none"
                 /\ messages = <<>>
                 /\ pc \notin {"crashed", "stopped"}
                 /\ col \notin df.datetime
                 /\ \A r \in RowsOf(df) : r[col] = cache[1].rows[IndexOf(r)][col]
            ELSE col \in df.datetime

====
